---- MODULE Spec2Model ----
(***************************************************************************)
(* Model of map-avg-income-districts-cph.py: the one-time data preparation *)
(* (geo id map, income table clean-up, wide-to-long reshape, join, colour  *)
(* scale), the declared slider, and the redraw callback update_figure.     *)
(*                                                                         *)
(* Strings that the program slices, compares, casts or formats are         *)
(* sequences of one-character strings; every other value is an integer, a  *)
(* record or a sequence.                                                   *)
(***************************************************************************)
EXTENDS Integers, Sequences, FiniteSets, TLC

VARIABLES
    pc,                  \* position of the module-level script
    csv,                 \* content of the income CSV file as read at line 22
    error,               \* exception that ended startup ("none" while alive)
    districts_cph,       \* features of the loaded GeoJSON
    districts_id_map,    \* dict: district name -> feature id
    df_income,           \* wide table: [columns, rows]
    df_income_long,      \* long table: sequence of rows
    min_value_colorbar,
    max_value_colorbar,
    colorbar_values,
    colorbar_text_dot,
    slider,              \* the declared dcc.Slider and its client-side value
    origin,              \* what triggered the last redraw ("none" before any)
    selected_year,       \* argument of the last update_figure call
    fig                  \* figure returned by the last update_figure call

vars == <<pc, csv, error, districts_cph, districts_id_map, df_income, df_income_long,
          min_value_colorbar, max_value_colorbar, colorbar_values,
          colorbar_text_dot, slider, origin, selected_year, fig>>

shared == <<districts_cph, districts_id_map, df_income, df_income_long,
            min_value_colorbar, max_value_colorbar, colorbar_values,
            colorbar_text_dot>>

-----------------------------------------------------------------------------
(* Bounds of the model.                                                    *)

MaxFeatures == 2
MaxRows == 2
MaxCols == 2

-----------------------------------------------------------------------------
(* Program constants.                                                      *)

PrefixLen == 11
RoundUnit == 10000
Pad == 10000
TickStep == 40000

OldName ==
    <<"V","e","s","t","e","r","b","r","o","/",
      "K","o","n","g","e","n","s"," ","E","n","g","h","a","v","e">>
NewName ==
    <<"V","e","s","t","e","r","b","r","o","-",
      "K","o","n","g","e","n","s"," ","E","n","g","h","a","v","e">>

-----------------------------------------------------------------------------
(* Generic sequence helpers.                                               *)

RECURSIVE SeqsUpTo(_, _)
SeqsUpTo(S, n) ==
    IF n = 0 THEN {<<>>}
    ELSE LET shorter == SeqsUpTo(S, n - 1)
         IN  shorter \cup {Append(s, x) : s \in {t \in shorter : Len(t) = n - 1}, x \in S}

Distinct(s) == \A i, j \in DOMAIN s : i # j => s[i] # s[j]

SetMax(S) == CHOOSE m \in S : \A v \in S : v <= m
SetMin(S) == CHOOSE m \in S : \A v \in S : m <= v

-----------------------------------------------------------------------------
(* Python text <-> integer conversions.                                    *)

DigitChars == <<"0","1","2","3","4","5","6","7","8","9">>

IsDigit(c) == \E d \in 1..10 : DigitChars[d] = c
DigitVal(c) == (CHOOSE d \in 1..10 : DigitChars[d] = c) - 1

\* int(s) succeeds on a non-empty run of decimal digits (leading zeros allowed).
IsIntStr(s) == Len(s) > 0 /\ \A i \in DOMAIN s : IsDigit(s[i])

RECURSIVE ParseInt(_)
ParseInt(s) ==
    IF Len(s) = 0 THEN 0
    ELSE 10 * ParseInt(SubSeq(s, 1, Len(s) - 1)) + DigitVal(s[Len(s)])

\* str(n) for n >= 0: canonical decimal digits.
RECURSIVE IntToStr(_)
IntToStr(n) ==
    IF n < 10 THEN <<DigitChars[n + 1]>>
    ELSE Append(IntToStr(n \div 10), DigitChars[(n % 10) + 1])

Pad3(n) ==
    <<DigitChars[(n \div 100) + 1], DigitChars[((n \div 10) % 10) + 1], DigitChars[(n % 10) + 1]>>

\* '{:,d}'.format(n): groups of three digits separated by commas, sign first.
RECURSIVE GroupDigits(_)
GroupDigits(n) ==
    IF n < 1000 THEN IntToStr(n)
    ELSE GroupDigits(n \div 1000) \o <<",">> \o Pad3(n % 1000)

FormatComma(n) == IF n < 0 THEN <<"-">> \o GroupDigits(-n) ELSE GroupDigits(n)

\* string.replace(",", ".")
ReplaceComma(s) == [i \in DOMAIN s |-> IF s[i] = "," THEN "." ELSE s[i]]

-----------------------------------------------------------------------------
(* Pure steps of the data preparation.                                     *)

EmptyMap == [n \in {} |-> 0]

\* (variant: the first feature of a name keeps the entry, as setdefault would)
RECURSIVE BuildIdMapFirstWins(_)
BuildIdMapFirstWins(features) ==
    IF features = <<>> THEN EmptyMap
    ELSE LET prev == BuildIdMapFirstWins(SubSeq(features, 1, Len(features) - 1))
             last == features[Len(features)]
         IN  [n \in (DOMAIN prev) \cup {last.navn} |->
                 IF n \in DOMAIN prev THEN prev[n] ELSE last.id]

\* for feature in features: districts_id_map[navn] = id   (a later feature
\* with the same name overwrites the earlier entry)
RECURSIVE BuildIdMap(_)
BuildIdMap(features) ==
    IF features = <<>> THEN EmptyMap
    ELSE LET prev == BuildIdMap(SubSeq(features, 1, Len(features) - 1))
             last == features[Len(features)]
         IN  [n \in (DOMAIN prev) \cup {last.navn} |->
                 IF n = last.navn THEN last.id ELSE prev[n]]

\* .str[11:]
StripPrefix(s) == IF Len(s) <= PrefixLen THEN <<>> ELSE SubSeq(s, PrefixLen + 1, Len(s))

\* (variant: the name correction left out)
ReplaceNameSkipped(s) == s

\* .replace({old: new}): whole-value replacement
ReplaceName(s) == IF s = OldName THEN NewName ELSE s

CleanDistricts(df) ==
    [df EXCEPT !.rows = [i \in DOMAIN df.rows |->
        [df.rows[i] EXCEPT !.district = StripPrefix(df.rows[i].district)]]]

ReplaceDistricts(df) ==
    [df EXCEPT !.rows = [i \in DOMAIN df.rows |->
        [df.rows[i] EXCEPT !.district = ReplaceName(df.rows[i].district)]]]

\* (variant: every year column filled from the first year column)
MeltFirstColumn(df) ==
    [k \in 1..(Len(df.rows) * Len(df.columns)) |->
        [district |-> df.rows[((k - 1) % Len(df.rows)) + 1].district,
         year |-> df.columns[((k - 1) \div Len(df.rows)) + 1],
         avg_income |-> df.rows[((k - 1) % Len(df.rows)) + 1].cells[1]]]

\* df.melt(id_vars='district'): column by column, the rows in table order.
Melt(df) ==
    LET D == Len(df.rows)
        Y == Len(df.columns)
    IN  [k \in 1..(D * Y) |->
            LET i == ((k - 1) % D) + 1
                j == ((k - 1) \div D) + 1
            IN  [district |-> df.rows[i].district,
                 year |-> df.columns[j],
                 avg_income |-> df.rows[i].cells[j]]]

CanCastYear(long) == \A k \in DOMAIN long : IsIntStr(long[k].year)

\* .astype(int)
CastYear(long) == [k \in DOMAIN long |-> [long[k] EXCEPT !.year = ParseInt(long[k].year)]]

CanJoin(long, idmap) == \A k \in DOMAIN long : long[k].district \in DOMAIN idmap

\* df_income_long["id"] = district.apply(lambda x: districts_id_map[x])
JoinId(long, idmap) ==
    [k \in DOMAIN long |->
        [district |-> long[k].district, year |-> long[k].year,
         avg_income |-> long[k].avg_income, id |-> idmap[long[k].district]]]

-----------------------------------------------------------------------------
(* Colour scale (lines 42-54).  A cell is an integer or NaN (an empty CSV  *)
(* cell); one NaN makes the melted value column float64.                   *)

Num(n) == [nan |-> FALSE, v |-> n]
NaN == [nan |-> TRUE, v |-> 0]

Incomes(long) == {long[k].avg_income.v : k \in {i \in DOMAIN long : ~long[i].avg_income.nan}}

\* the value column is int64 only if it is non-empty and holds no NaN
IsIntColumn(long) == long # <<>> /\ \A k \in DOMAIN long : ~long[k].avg_income.nan

\* (variant: truncation to the ten-thousand below)
Round10kFloor(x) == (x \div RoundUnit) * RoundUnit

\* round(x, -4): to the nearest multiple of 10,000, a tie to the even multiple
Round10k(x) ==
    LET q == x \div RoundUnit
        r == x % RoundUnit
    IN  IF 2 * r < RoundUnit THEN q * RoundUnit
        ELSE IF 2 * r > RoundUnit THEN (q + 1) * RoundUnit
        ELSE IF q % 2 = 0 THEN q * RoundUnit ELSE (q + 1) * RoundUnit

MaxValueColorbar(long) == Round10k(SetMax(Incomes(long))) + Pad
MinValueColorbar(long) == Round10k(SetMin(Incomes(long))) - Pad

\* list(range(start, stop, step)) for step > 0: stop is excluded
PyRange(start, stop, step) ==
    LET n == IF start >= stop THEN 0 ELSE (stop - start + step - 1) \div step
    IN  [k \in 1..n |-> start + (k - 1) * step]

\* (variant: a tick every 10,000)
ColorbarValuesDense(lo, hi) == PyRange(lo, hi, RoundUnit)

ColorbarValues(lo, hi) == PyRange(lo, hi, TickStep)

ColorbarTextDot(values) == [k \in DOMAIN values |-> ReplaceComma(FormatComma(values[k]))]

-----------------------------------------------------------------------------
(* Slider (lines 81-90) and redraw (lines 104-147).                        *)

Years(long) == {long[k].year : k \in DOMAIN long}

SliderMin(long) == SetMin(Years(long))
SliderMax(long) == SetMax(Years(long))
\* (variant: the slider starts one past the last year)
SliderValuePastEnd(long) == SetMax(Years(long)) + 1
SliderValue(long) == SetMax(Years(long))
\* (variant: marks from range(min, max), which leaves the last year out)
SliderMarksOpenRange(long) == {IntToStr(y) : y \in Years(long) \ {SetMax(Years(long))}}
SliderMarks(long) == {IntToStr(y) : y \in Years(long)}

\* (variant: >= in place of ==)
FilterYearFrom(long, year) ==
    LET Keep(r) == r.year >= year
    IN  SelectSeq(long, Keep)

\* (variant: an empty selection falls back to the whole table)
FilterYearOrAll(long, year) ==
    LET Keep(r) == r.year = year
    IN  IF SelectSeq(long, Keep) = <<>> THEN long ELSE SelectSeq(long, Keep)

\* df_income_long[df_income_long.year == selected_year]
FilterYear(long, year) ==
    LET Keep(r) == r.year = year
    IN  SelectSeq(long, Keep)

RangeColor(lo, hi) == <<lo, hi>>

update_figure(year) ==
    LET filtered_df == FilterYear(df_income_long, year)
    IN  [geojson |-> districts_cph,
         locations |-> [k \in DOMAIN filtered_df |-> filtered_df[k].id],
         color |-> [k \in DOMAIN filtered_df |-> filtered_df[k].avg_income],
         customdata |-> [k \in DOMAIN filtered_df |->
                            <<filtered_df[k].district, filtered_df[k].year,
                              filtered_df[k].avg_income>>],
         range_color |-> RangeColor(min_value_colorbar, max_value_colorbar),
         tickvals |-> colorbar_values,
         ticktext |-> colorbar_text_dot]

-----------------------------------------------------------------------------
(* Input files the program may be started on.                              *)

Valby == <<"V","a","l","b","y">>
Prefix1 == <<"B","y","d","e","l"," ","-"," ","0","1"," ">>
Prefix2 == <<"B","y","d","e","l"," ","-"," ","0","2"," ">>

FeatureNames == {Valby, NewName}
FeatureIds == {1, 2}
Features == [navn : FeatureNames, id : FeatureIds]
FeatureCollections == SeqsUpTo(Features, MaxFeatures)

GeoFiles ==
    {[readable |-> TRUE, features |-> fc] : fc \in FeatureCollections}
        \cup {[readable |-> FALSE, features |-> <<>>]}

\* district cells as written in the CSV: code prefix + name, or a short cell
RawLabels == {Prefix1 \o Valby, Prefix2 \o Valby, Prefix1 \o OldName, Valby}

H2008 == <<"2","0","0","8">>
H2009 == <<"2","0","0","9">>
H02008 == <<"0","2","0","0","8">>
H2008dot1 == <<"2","0","0","8",".","1">>
Headers == {H2008, H2009, H02008, H2008dot1}

IncomeValues ==
    {-5000, 0, 195000, 200000, 204999, 205000, 205001, 215000, 226000, 300000}
Cells == {Num(v) : v \in IncomeValues} \cup {NaN}

\* tables varying the district cells: one year column
LabelTables ==
    {[columns |-> <<H2008>>,
      rows |-> [i \in DOMAIN ls |-> [district |-> ls[i], cells |-> <<Num(240000 + 1000 * i)>>]]]
        : ls \in SeqsUpTo(RawLabels, MaxRows)}

\* tables varying the year columns (read_csv keeps header texts distinct)
HeaderTables ==
    {[columns |-> hs,
      rows |-> [i \in 1..2 |->
                  [district |-> IF i = 1 THEN Prefix1 \o Valby ELSE Prefix1 \o OldName,
                   cells |-> [j \in DOMAIN hs |-> Num(200000 + 10000 * i + 1000 * j)]]]]
        : hs \in {h \in SeqsUpTo(Headers, MaxCols) : Distinct(h)}}

\* tables varying the cells: one district, two years
CellTables ==
    {[columns |-> <<H2008, H2009>>,
      rows |-> <<[district |-> Prefix1 \o Valby, cells |-> <<a, b>>]>>]
        : a \in Cells, b \in Cells}

IncomeTables == LabelTables \cup HeaderTables \cup CellTables

IncomeFiles ==
    {[readable |-> TRUE, table |-> t] : t \in IncomeTables}
        \cup {[readable |-> FALSE, table |-> [columns |-> <<>>, rows |-> <<>>]]}

\* years a request to the callback endpoint may carry
RequestYears == {2008, 2009, 2010}

-----------------------------------------------------------------------------
(* The program.                                                            *)

NoSlider == [declared |-> FALSE, min |-> 0, max |-> 0, value |-> 0, marks |-> {}]
NoFig == [geojson |-> <<>>, locations |-> <<>>, color |-> <<>>, customdata |-> <<>>,
          range_color |-> <<0, 0>>, tickvals |-> <<>>, ticktext |-> <<>>]

Init ==
    /\ pc = "start"
    /\ csv = [columns |-> <<>>, rows |-> <<>>]
    /\ error = "none"
    /\ districts_cph = <<>>
    /\ districts_id_map = EmptyMap
    /\ df_income = [columns |-> <<>>, rows |-> <<>>]
    /\ df_income_long = <<>>
    /\ min_value_colorbar = 0
    /\ max_value_colorbar = 0
    /\ colorbar_values = <<>>
    /\ colorbar_text_dot = <<>>
    /\ slider = NoSlider
    /\ origin = "none"
    /\ selected_year = 0
    /\ fig = NoFig

Fail(kind) == pc' = "failed" /\ error' = kind

\* line 14
LoadGeo ==
    /\ pc = "start"
    /\ \E f \in GeoFiles :
          IF f.readable
          THEN /\ districts_cph' = f.features
               /\ pc' = "geo_loaded"
               /\ UNCHANGED error
          ELSE /\ Fail("FileNotFoundError")
               /\ UNCHANGED districts_cph
    /\ UNCHANGED <<csv, districts_id_map, df_income, df_income_long, min_value_colorbar,
                   max_value_colorbar, colorbar_values, colorbar_text_dot, slider,
                   origin, selected_year, fig>>

\* lines 17-19
BuildMap ==
    /\ pc = "geo_loaded"
    /\ districts_id_map' = BuildIdMap(districts_cph)
    /\ pc' = "map_built"
    /\ UNCHANGED <<csv, error, districts_cph, df_income, df_income_long, min_value_colorbar,
                   max_value_colorbar, colorbar_values, colorbar_text_dot, slider,
                   origin, selected_year, fig>>

\* line 22
LoadIncome ==
    /\ pc = "map_built"
    /\ \E f \in IncomeFiles :
          IF f.readable
          THEN /\ df_income' = f.table
               /\ csv' = f.table
               /\ pc' = "income_loaded"
               /\ UNCHANGED error
          ELSE /\ Fail("FileNotFoundError")
               /\ UNCHANGED <<df_income, csv>>
    /\ UNCHANGED <<districts_cph, districts_id_map, df_income_long, min_value_colorbar,
                   max_value_colorbar, colorbar_values, colorbar_text_dot, slider,
                   origin, selected_year, fig>>

\* line 25
Clean ==
    /\ pc = "income_loaded"
    /\ df_income' = CleanDistricts(df_income)
    /\ pc' = "cleaned"
    /\ UNCHANGED <<csv, error, districts_cph, districts_id_map, df_income_long,
                   min_value_colorbar, max_value_colorbar, colorbar_values,
                   colorbar_text_dot, slider, origin, selected_year, fig>>

\* line 28
Rename ==
    /\ pc = "cleaned"
    /\ df_income' = ReplaceDistricts(df_income)
    /\ pc' = "renamed"
    /\ UNCHANGED <<csv, error, districts_cph, districts_id_map, df_income_long,
                   min_value_colorbar, max_value_colorbar, colorbar_values,
                   colorbar_text_dot, slider, origin, selected_year, fig>>

\* lines 31-33
Reshape ==
    /\ pc = "renamed"
    /\ df_income_long' = Melt(df_income)
    /\ pc' = "melted"
    /\ UNCHANGED <<csv, error, districts_cph, districts_id_map, df_income,
                   min_value_colorbar, max_value_colorbar, colorbar_values,
                   colorbar_text_dot, slider, origin, selected_year, fig>>

\* line 36
Cast ==
    /\ pc = "melted"
    /\ IF CanCastYear(df_income_long)
       THEN /\ df_income_long' = CastYear(df_income_long)
            /\ pc' = "cast"
            /\ UNCHANGED error
       ELSE /\ Fail("ValueError")
            /\ UNCHANGED df_income_long
    /\ UNCHANGED <<csv, districts_cph, districts_id_map, df_income, min_value_colorbar,
                   max_value_colorbar, colorbar_values, colorbar_text_dot, slider,
                   origin, selected_year, fig>>

\* line 39
Join ==
    /\ pc = "cast"
    /\ IF CanJoin(df_income_long, districts_id_map)
       THEN /\ df_income_long' = JoinId(df_income_long, districts_id_map)
            /\ pc' = "joined"
            /\ UNCHANGED error
       ELSE /\ Fail("KeyError")
            /\ UNCHANGED df_income_long
    /\ UNCHANGED <<csv, districts_cph, districts_id_map, df_income, min_value_colorbar,
                   max_value_colorbar, colorbar_values, colorbar_text_dot, slider,
                   origin, selected_year, fig>>

\* lines 42-45: range() accepts only integers
ColorScale ==
    /\ pc = "joined"
    /\ IF IsIntColumn(df_income_long)
       THEN /\ max_value_colorbar' = MaxValueColorbar(df_income_long)
            /\ min_value_colorbar' = MinValueColorbar(df_income_long)
            /\ colorbar_values' =
                  ColorbarValues(MinValueColorbar(df_income_long),
                                 MaxValueColorbar(df_income_long))
            /\ pc' = "scaled"
            /\ UNCHANGED error
       ELSE /\ Fail("TypeError")
            /\ UNCHANGED <<min_value_colorbar, max_value_colorbar, colorbar_values>>
    /\ UNCHANGED <<csv, districts_cph, districts_id_map, df_income, df_income_long,
                   colorbar_text_dot, slider, origin, selected_year, fig>>

\* lines 47-54
ColorText ==
    /\ pc = "scaled"
    /\ colorbar_text_dot' = ColorbarTextDot(colorbar_values)
    /\ pc' = "labelled"
    /\ UNCHANGED <<csv, error, districts_cph, districts_id_map, df_income, df_income_long,
                   min_value_colorbar, max_value_colorbar, colorbar_values, slider,
                   origin, selected_year, fig>>

\* lines 58-103 and 151-152: the layout is declared, the callback registered
\* and the server started
Layout ==
    /\ pc = "labelled"
    /\ slider' = [declared |-> TRUE,
                  min |-> SliderMin(df_income_long),
                  max |-> SliderMax(df_income_long),
                  value |-> SliderValue(df_income_long),
                  marks |-> SliderMarks(df_income_long)]
    /\ pc' = "serving"
    /\ UNCHANGED <<csv, error, shared, origin, selected_year, fig>>

\* (variant: the filter applied to the global table in place)
RedrawInPlace(year, from) ==
    /\ selected_year' = year
    /\ fig' = update_figure(year)
    /\ origin' = from
    /\ df_income_long' = FilterYear(df_income_long, year)
    /\ UNCHANGED <<pc, csv, error, districts_cph, districts_id_map, df_income,
                   min_value_colorbar, max_value_colorbar, colorbar_values,
                   colorbar_text_dot>>

\* the callback body, lines 104-147, run to completion for one event
Redraw(year, from) ==
    /\ selected_year' = year
    /\ fig' = update_figure(year)
    /\ origin' = from
    /\ UNCHANGED <<pc, csv, error, shared>>

\* the page is opened: Dash fires the callback with the slider's value
PageLoad ==
    /\ pc = "serving"
    /\ origin = "none"
    /\ Redraw(slider.value, "page_load")
    /\ UNCHANGED slider

\* the user drags the slider: step=None lets it rest on a mark only
SliderEvent ==
    /\ pc = "serving"
    /\ origin # "none"
    /\ \E m \in slider.marks :
          /\ ParseInt(m) >= slider.min
          /\ ParseInt(m) <= slider.max
          /\ slider' = [slider EXCEPT !.value = ParseInt(m)]
          /\ Redraw(ParseInt(m), "slider")

\* any other caller of the callback (a request with an arbitrary value)
Request ==
    /\ pc = "serving"
    /\ \E y \in RequestYears : Redraw(y, "request")
    /\ UNCHANGED slider

Next ==
    \/ LoadGeo
    \/ BuildMap
    \/ LoadIncome
    \/ Clean
    \/ Rename
    \/ Reshape
    \/ Cast
    \/ Join
    \/ ColorScale
    \/ ColorText
    \/ Layout
    \/ PageLoad
    \/ SliderEvent
    \/ Request

Spec == Init /\ [][Next]_vars

-----------------------------------------------------------------------------
(* Vocabulary of the properties, stated from the input files.              *)

Failed(kinds) == pc = "failed" /\ error \in kinds

\* how far the script has come
Melted == pc \in {"melted", "cast", "joined", "scaled", "labelled", "serving"}
              \/ Failed({"ValueError", "KeyError", "TypeError"})
YearsCast == pc \in {"cast", "joined", "scaled", "labelled", "serving"}
                \/ Failed({"KeyError", "TypeError"})
Joined == pc \in {"joined", "scaled", "labelled", "serving"} \/ Failed({"TypeError"})
Scaled == pc \in {"scaled", "labelled", "serving"}
\* (after an unreadable GeoJSON both the features and the map are empty)
MapBuilt == pc \notin {"start", "geo_loaded"}

\* a district cell of the CSV without its first 11 characters, the one
\* inconsistent label corrected
DistrictOf(label) ==
    LET n == IF Len(label) > 11 THEN Len(label) - 11 ELSE 0
        tail == [i \in 1..n |-> label[i + 11]]
    IN  IF tail = OldName THEN NewName ELSE tail

D == Len(csv.rows)
Y == Len(csv.columns)
DistrictNames == {DistrictOf(csv.rows[i].district) : i \in 1..D}
GeoNames == {districts_cph[i].navn : i \in DOMAIN districts_cph}
AllNamesKnown == DistrictNames \subseteq GeoNames
HeadersAreInts == \A j \in 1..Y : IsIntStr(csv.columns[j])
Redrawn == origin # "none"

-----------------------------------------------------------------------------
C2_MeltShape ==
    Melted =>
        /\ Len(df_income_long) = D * Y
        /\ \A i \in 1..D, j \in 1..Y :
              LET row == df_income_long[(j - 1) * D + i]
              IN  /\ row.district = DistrictOf(csv.rows[i].district)
                  /\ row.avg_income = csv.rows[i].cells[j]
                  /\ IF YearsCast
                     THEN row.year = ParseInt(csv.columns[j])
                     ELSE row.year = csv.columns[j]

C2_Witness ==
    /\ Melted
    /\ D = 2
    /\ Y = 2
    /\ Cardinality({df_income_long[k].avg_income : k \in DOMAIN df_income_long}) = 4

\* C3 (as amended): the colour-bar ticks are strictly increasing, consecutive
\* ticks differ by exactly 40,000, the smallest tick is min_value_colorbar
\* and is <= the minimum observed income, and the largest tick lies below
\* max_value_colorbar by at most 40,000 (it need not reach the maximum
\* observed income).
C3_TicksInsideRange ==
    Scaled =>
        LET n == Len(colorbar_values)
        IN  /\ n >= 1
            /\ \A k \in 1..(n - 1) :
                  /\ colorbar_values[k] < colorbar_values[k + 1]
                  /\ colorbar_values[k + 1] - colorbar_values[k] = 40000
            /\ colorbar_values[1] = min_value_colorbar
            /\ colorbar_values[1] <= SetMin(Incomes(df_income_long))
            /\ colorbar_values[n] < max_value_colorbar
            /\ max_value_colorbar - colorbar_values[n] <= 40000

\* C3 as stated: moreover the largest tick is >= the maximum observed income.
C3_AsStated ==
    Scaled =>
        LET n == Len(colorbar_values)
        IN  /\ n >= 1
            /\ \A k \in 1..(n - 1) : colorbar_values[k + 1] - colorbar_values[k] = 40000
            /\ colorbar_values[1] <= SetMin(Incomes(df_income_long))
            /\ colorbar_values[n] >= SetMax(Incomes(df_income_long))

C3_Witness ==
    /\ Scaled
    /\ Len(colorbar_values) = 3
    /\ colorbar_values[3] < SetMax(Incomes(df_income_long))

\* C4: the colour range is the observed income range rounded to the nearest
\* ten-thousand and padded by 10,000 on both sides, both ends multiples of
\* 10,000; every income of the long table lies inside it, and every redraw
\* uses this range whatever year is selected.
C4_ColourRange ==
    Scaled =>
        LET lo == SetMin(Incomes(df_income_long))
            hi == SetMax(Incomes(df_income_long))
            rlo == min_value_colorbar + 10000
            rhi == max_value_colorbar - 10000
        IN  /\ min_value_colorbar % 10000 = 0
            /\ max_value_colorbar % 10000 = 0
            /\ 2 * (rlo - lo) <= 10000 /\ 2 * (lo - rlo) <= 10000
            /\ 2 * (rhi - hi) <= 10000 /\ 2 * (hi - rhi) <= 10000
            /\ \A k \in DOMAIN df_income_long :
                  /\ min_value_colorbar <= df_income_long[k].avg_income.v
                  /\ df_income_long[k].avg_income.v <= max_value_colorbar
            /\ Redrawn => fig.range_color = <<min_value_colorbar, max_value_colorbar>>

C4_Witness ==
    /\ Redrawn
    /\ origin = "slider"
    /\ SetMin(Incomes(df_income_long)) = 205000
    /\ SetMax(Incomes(df_income_long)) = 226000
    /\ fig.range_color = <<190000, 240000>>

\* columns of the CSV whose header is the year y
ColsOfYear(y) == {j \in 1..Y : IsIntStr(csv.columns[j]) /\ ParseInt(csv.columns[j]) = y}
ValidYear == Redrawn /\ selected_year \in Years(df_income_long)
DistinctDistricts == \A i, j \in 1..D : i # j => DistrictOf(csv.rows[i].district) # DistrictOf(csv.rows[j].district)
DistinctYears == \A i, j \in 1..Y : i # j => ParseInt(csv.columns[i]) # ParseInt(csv.columns[j])
EntriesOf(d) == {k \in DOMAIN fig.customdata : fig.customdata[k][1] = d}

C6_UnknownYearEmptyMap ==
    (Redrawn /\ selected_year \notin Years(df_income_long)) =>
        /\ fig.locations = <<>>
        /\ fig.color = <<>>
        /\ fig.customdata = <<>>
        /\ fig.geojson = districts_cph
        /\ pc = "serving"
        /\ error = "none"
        /\ ENABLED SliderEvent

C6_Witness ==
    /\ origin = "request"
    /\ selected_year = 2010
    /\ fig.locations = <<>>
    /\ fig.tickvals # <<>>

\* rows of the long table, as startup left it, for year y
RowsOfYear(y) ==
    LET Row(r) == r.year = y
    IN  SelectSeq(df_income_long, Row)

\* C7: the redraw handler mutates no shared state: while serving, no step
\* changes the long table, the id map, the geo data, the wide table or the
\* colour scale (range, tick values, tick labels), nor leaves the serving
\* state, and the figure held after a redraw for year Y0 is the one these
\* startup values give for Y0, whatever was handled before.
C7_RedrawIsPure ==
    [][pc = "serving" =>
          /\ pc' = "serving"
          /\ districts_cph' = districts_cph
          /\ districts_id_map' = districts_id_map
          /\ df_income' = df_income
          /\ df_income_long' = df_income_long
          /\ min_value_colorbar' = min_value_colorbar
          /\ max_value_colorbar' = max_value_colorbar
          /\ colorbar_values' = colorbar_values
          /\ colorbar_text_dot' = colorbar_text_dot
          /\ fig'.locations =
                [k \in 1..Len(RowsOfYear(selected_year')) |->
                    RowsOfYear(selected_year')[k].id]
          /\ fig'.color =
                [k \in 1..Len(RowsOfYear(selected_year')) |->
                    RowsOfYear(selected_year')[k].avg_income]
          /\ fig'.tickvals = colorbar_values
          /\ fig'.ticktext = colorbar_text_dot
          /\ fig'.geojson = districts_cph]_vars

C7_Witness ==
    /\ origin = "slider"
    /\ selected_year = 2008
    /\ slider.max = 2009
    /\ Len(fig.locations) = 2

\* C8: in every serving state the years of the long table are exactly the
\* year headers of the CSV cast to integer (with a non-integer header the
\* program never serves and declares no view), and the slider has exactly
\* one mark per distinct year, its minimum and maximum being the smallest
\* and the largest year.
C8_YearsAndMarks ==
    /\ ~HeadersAreInts => pc # "serving" /\ ~slider.declared
    /\ pc = "serving" =>
          /\ Years(df_income_long) = {ParseInt(csv.columns[j]) : j \in 1..Y}
          /\ slider.declared
          /\ Cardinality(slider.marks) = Cardinality(Years(df_income_long))
          /\ \A m \in slider.marks : IsIntStr(m)
          /\ {ParseInt(m) : m \in slider.marks} = Years(df_income_long)
          /\ slider.min \in Years(df_income_long)
          /\ slider.max \in Years(df_income_long)
          /\ \A y \in Years(df_income_long) : slider.min <= y /\ y <= slider.max

C8_Witness ==
    /\ pc = "serving"
    /\ Y = 2
    /\ csv.columns[1] = H02008
    /\ slider.marks = {H2008, H2009}
    /\ slider.min = 2008
    /\ slider.max = 2009

\* the last feature of the collection that bears the name n
LastNamed(n) ==
    districts_cph[SetMax({i \in DOMAIN districts_cph : districts_cph[i].navn = n})]
DistinctFeatures ==
    \A i, j \in DOMAIN districts_cph :
        i # j => /\ districts_cph[i].navn # districts_cph[j].navn
                 /\ districts_cph[i].id # districts_cph[j].id
OneToOne ==
    /\ \A i \in DOMAIN districts_cph :
          /\ districts_cph[i].navn \in DOMAIN districts_id_map
          /\ districts_id_map[districts_cph[i].navn] = districts_cph[i].id
    /\ Cardinality(DOMAIN districts_id_map) = Len(districts_cph)
    /\ \A m, n \in DOMAIN districts_id_map :
          m # n => districts_id_map[m] # districts_id_map[n]

\* C9 (as amended): the keys of the id map are exactly the names of the
\* features and each name maps to the id of the last feature bearing it; the
\* map is one-to-one, each feature contributing its own entry, when the
\* features have pairwise distinct names and pairwise distinct ids; the map
\* is built once and never modified afterwards.
C9_IdMap ==
    [][/\ MapBuilt' =>
             /\ DOMAIN districts_id_map' = GeoNames'
             /\ \A n \in GeoNames' : districts_id_map'[n] = LastNamed(n)'.id
             /\ DistinctFeatures' => OneToOne'
       /\ MapBuilt => districts_id_map' = districts_id_map /\ districts_cph' = districts_cph]_vars

\* C9 as stated: the map is one-to-one for every feature collection.
C9_AsStated == MapBuilt => OneToOne

C9_Witness ==
    /\ MapBuilt
    /\ Len(districts_cph) = 2
    /\ DistinctFeatures
    /\ Redrawn

\* C10: the year a redraw receives from the user interface (at page load or
\* from a slider move) is always a year of the long table, so such a redraw
\* never yields the empty map; the slider rests on a year of the table.
C10_SliderYearsValid ==
    /\ slider.declared => slider.value \in Years(df_income_long)
    /\ origin \in {"page_load", "slider"} =>
          /\ selected_year \in Years(df_income_long)
          /\ selected_year = slider.value
          /\ fig.locations # <<>>

C10_Witness ==
    /\ origin = "slider"
    /\ selected_year = 2008
    /\ slider.max = 2009
    /\ csv.columns = <<H02008, H2009>>

====
